---- MODULE Spec2Model ----
(***************************************************************************)
(* one-tab-manager: the storage layer (storage.ts) and the backup job of   *)
(* the background script (background.ts) over chrome.storage.local.        *)
(*                                                                         *)
(* chrome.storage.local is a map from keys to values: `store` is a         *)
(* function whose domain is the set of keys that are present.  A SavedTab  *)
(* is a record [id, url, title, savedAt].  favIconUrl is carried by the    *)
(* object spread exactly as title is and is read by nothing in the storage *)
(* layer; title stands for both payload fields.                            *)
(***************************************************************************)
EXTENDS Integers, Sequences, FiniteSets, TLC

\* ---- bounds of the model ------------------------------------------------
MaxTime == 2          \* Date.now() returns a value in 1..MaxTime
MaxRand == 2          \* Math.random() suffixes are drawn from 1..MaxRand
MaxUrl == 2           \* urls of the open browser tabs
MaxTitle == 1         \* titles of the open browser tabs
MaxBatch == 2         \* candidates in one saveTabs call
MaxStored == 3        \* a save that would store more records is not taken
MaxOpen == 2          \* browser tabs open at a time
MaxListed == 21       \* tabs saved in one go before the options page opens
MaxDeleted == 2       \* deletes made from the options page

Times == 1..MaxTime
Rands == 1..MaxRand
Urls == 1..MaxUrl
Titles == 1..MaxTitle

\* ---- storage keys -------------------------------------------------------
STORAGE_KEY == "savedTabs"
LiveKeyForBackup == "savedTabs"
BACKUP_STORAGE_KEY == "savedTabs_backup"

VARIABLES
    store,      \* chrome.storage.local: [present keys -> sequence of SavedTab]
    last,       \* the call that completed last (see Call)
    expected,   \* history: the records added by a save and not deleted since
    io,         \* the last call's storage fault and what its caller got thrown
    browser,    \* chrome.tabs: the browser tabs that are open
    popup,      \* state of the popup component (popup.tsx)
    options,    \* state of the options page component (options.tsx)
    race,       \* storage.ts calls between their read and their write
    alarms,     \* chrome.alarms: [registered names -> periodInMinutes]
    event       \* the event the background script handled in the last step

vars == <<store, last, expected, io, browser, popup, options, race, alarms, event>>

\* what the calls of storage.ts leave alone
pages == <<browser, popup, options>>
background == <<alarms, event>>

\* ---- helpers ------------------------------------------------------------
Range(s) == {s[i] : i \in 1..Len(s)}

UrlsOf(tabs) == {tabs[i].url : i \in 1..Len(tabs)}
IdsOf(tabs) == {tabs[i].id : i \in 1..Len(tabs)}

\* Omit<SavedTab, "id" | "savedAt">
Candidates == [url : Urls, title : Titles]

RECURSIVE SeqsUpTo(_, _)
SeqsUpTo(S, n) ==
    IF n = 0 THEN {<<>>}
    ELSE LET shorter == SeqsUpTo(S, n - 1)
         IN  shorter \cup {Append(s, x) : s \in {t \in shorter : Len(t) = n - 1}, x \in S}

\* the arguments of a saveTabs call
Batches == SeqsUpTo(Candidates, MaxBatch)

\* `${now}-${index}-${suffix}`: now and index print as decimal digits and the
\* suffix as base-36 digits, none contains "-", so the string determines the
\* triple and the triple the string.
MakeIdNoIndex(now, index, suffix) == <<now, 0, suffix>>
MakeId(now, index, suffix) == <<now, index, suffix>>

AllIds == {MakeId(t, i, r) : t \in Times, i \in 0..(MaxBatch - 1), r \in Rands}

\* chrome.storage.local.get(key) followed by `result[key] || []`
StorageGet(st, key) == IF key \in DOMAIN st THEN st[key] ELSE <<>>

\* chrome.storage.local.set({[key]: value}): the value replaces the old one
StorageSet(st, key, value) ==
    [k \in (DOMAIN st) \cup {key} |-> IF k = key THEN value ELSE st[k]]

\* chrome.storage.local.remove(key)
StorageRemoveBackupKey(st, key) == [k \in (DOMAIN st) \ {BACKUP_STORAGE_KEY} |-> st[k]]
StorageRemove(st, key) == [k \in (DOMAIN st) \ {key} |-> st[k]]

\* Array.prototype.sort with the comparator (a, b) => b.savedAt - a.savedAt.
\* The sort is stable (ES2019): x goes after every element it does not have
\* to precede, i.e. after those with savedAt >= x.savedAt.
RECURSIVE InsertDesc(_, _)
InsertDesc(x, s) ==
    IF s = <<>> THEN <<x>>
    ELSE IF x.savedAt - Head(s).savedAt <= 0
         THEN <<Head(s)>> \o InsertDesc(x, Tail(s))
         ELSE <<x>> \o s

RECURSIVE SortFrom(_, _)
SortFrom(acc, rest) ==
    IF rest = <<>> THEN acc
    ELSE SortFrom(InsertDesc(Head(rest), acc), Tail(rest))

SortUnsorted(tabs) == tabs
SortBySavedAtDesc(tabs) == SortFrom(<<>>, tabs)

getSavedTabs(st) == SortBySavedAtDesc(StorageGet(st, STORAGE_KEY))

\* tabsToSave.map((tab, index) => ({...tab, id: ..., savedAt: now}))
NewTabs(tabsToSave, now, suffix) ==
    [i \in 1..Len(tabsToSave) |->
        [url |-> tabsToSave[i].url,
         title |-> tabsToSave[i].title,
         id |-> MakeId(now, i - 1, suffix[i]),
         savedAt |-> now]]

\* newTabs.filter(newTab => !existingTabs.some(e => e.url === newTab.url))
UniqueNewTabsUnfiltered(newTabs, existingTabs) == newTabs
UniqueNewTabsWithinBatch(newTabs, existingTabs) ==
    SelectSeq(newTabs, LAMBDA newTab :
        /\ ~ \E i \in 1..Len(existingTabs) : existingTabs[i].url = newTab.url
        /\ ~ \E j \in 1..Len(newTabs) :
               newTabs[j].url = newTab.url /\ newTabs[j].id[2] < newTab.id[2])
UniqueNewTabs(newTabs, existingTabs) ==
    SelectSeq(newTabs, LAMBDA newTab :
        ~ \E i \in 1..Len(existingTabs) : existingTabs[i].url = newTab.url)

\* [...uniqueNewTabs, ...existingTabs]
UpdatedTabsAppended(uniqueNewTabs, existingTabs) == existingTabs \o uniqueNewTabs
UpdatedTabsNewOnly(uniqueNewTabs, existingTabs) == uniqueNewTabs
UpdatedTabs(uniqueNewTabs, existingTabs) == uniqueNewTabs \o existingTabs

\* existingTabs.filter(tab => tab.id !== tabId)
WithoutIdFirstOnly(existingTabs, tabId) ==
    IF existingTabs # <<>> /\ Head(existingTabs).id = tabId
    THEN Tail(existingTabs) ELSE existingTabs
WithoutIdInverted(existingTabs, tabId) ==
    SelectSeq(existingTabs, LAMBDA tab : tab.id = tabId)
WithoutId(existingTabs, tabId) ==
    SelectSeq(existingTabs, LAMBDA tab : tab.id # tabId)

\* what an async function without a return statement resolves with
Undefined == <<>>

\* The record of a completed call: what it resolved with, what its console.log
\* line carried, and (history) the urls of the candidates it was given and the
\* number of stored records its argument matched when the call read the store
\* (by url for saveTabs, by id for deleteTab).
Call(op, ret, logged, urls, hits) ==
    [op |-> op, ret |-> ret, logged |-> logged, urls |-> urls, hits |-> hits]

\* console.log(`Saved ${uniqueNewTabs.length} new tabs.`)
SavedLogCandidates(uniqueNewTabs, tabsToSave) == <<Len(tabsToSave)>>
SavedLog(uniqueNewTabs, tabsToSave) == <<Len(uniqueNewTabs)>>

\* chrome.storage.local calls reject on quota or permission errors.  A call of
\* storage.ts has no try/catch: the rejection of an awaited storage call is the
\* rejection of the call itself.
NoFault == [fault |-> "none", thrown |-> "none"]

PropagatedNever(fault) == [fault |-> fault, thrown |-> "none"]
Propagated(fault) ==
    [fault |-> fault, thrown |-> IF fault = "none" THEN "none" ELSE "storage"]

\* ---- initial state: a fresh installation, nothing stored ---------------
InitStorage ==
    /\ store = <<>>
    /\ last = Call("none", Undefined, <<>>, <<>>, 0)
    /\ expected = {}
    /\ io = NoFault

\* ---- storage.ts ---------------------------------------------------------
saveTabs(tabsToSave, now, suffix) ==
    LET existingTabs == getSavedTabs(store)
        newTabs == NewTabs(tabsToSave, now, suffix)
        uniqueNewTabs == UniqueNewTabs(newTabs, existingTabs)
        updatedTabs == UpdatedTabs(uniqueNewTabs, existingTabs)
    IN  /\ Len(updatedTabs) <= MaxStored
        /\ store' = StorageSet(store, STORAGE_KEY, updatedTabs)
        /\ last' = Call("saveTabs", Undefined, SavedLog(uniqueNewTabs, tabsToSave),
                        [i \in 1..Len(tabsToSave) |-> tabsToSave[i].url],
                        Cardinality({i \in 1..Len(tabsToSave) :
                            tabsToSave[i].url \in UrlsOf(StorageGet(store, STORAGE_KEY))}))
        /\ io' = Propagated("none")
        /\ expected' = expected \cup
               {newTabs[i] : i \in {j \in 1..Len(newTabs) :
                    \A r \in expected : r.url # newTabs[j].url}}

deleteTab(tabId) ==
    LET existingTabs == getSavedTabs(store)
        updatedTabs == WithoutId(existingTabs, tabId)
    IN  /\ store' = StorageSet(store, STORAGE_KEY, updatedTabs)
        /\ last' = Call("deleteTab", Undefined, tabId, <<>>,
                        Cardinality({i \in 1..Len(StorageGet(store, STORAGE_KEY)) :
                            StorageGet(store, STORAGE_KEY)[i].id = tabId}))
        /\ io' = Propagated("none")
        /\ expected' = {r \in expected : r.id # tabId}

clearAllTabs ==
    /\ store' = StorageRemove(store, STORAGE_KEY)
    /\ last' = Call("clearAllTabs", Undefined, <<>>, <<>>,
                    Len(StorageGet(store, STORAGE_KEY)))
    /\ io' = Propagated("none")
    /\ expected' = {}

\* A call in which the awaited chrome.storage.local.get (fault "get") or
\* chrome.storage.local.set (fault "set") rejects: the statements after the
\* await do not run, and a rejected set stores nothing.
Faults == {"get", "set"}

saveTabsRejected(tabsToSave, fault) ==
    /\ store' = store
    /\ last' = Call("saveTabs", Undefined, <<>>,
                    [i \in 1..Len(tabsToSave) |-> tabsToSave[i].url],
                    Cardinality({i \in 1..Len(tabsToSave) :
                        tabsToSave[i].url \in UrlsOf(StorageGet(store, STORAGE_KEY))}))
    /\ io' = Propagated(fault)
    /\ UNCHANGED expected

deleteTabRejected(tabId, fault) ==
    /\ store' = store
    /\ last' = Call("deleteTab", Undefined, <<>>, <<>>,
                    Cardinality({i \in 1..Len(StorageGet(store, STORAGE_KEY)) :
                        StorageGet(store, STORAGE_KEY)[i].id = tabId}))
    /\ io' = Propagated(fault)
    /\ UNCHANGED expected

\* ---- background.ts ------------------------------------------------------
getSavedTabsForBackground(st) == SortBySavedAtDesc(StorageGet(st, STORAGE_KEY))

\* if (tabs.length > 0) await chrome.storage.local.set({[BACKUP_STORAGE_KEY]: tabs})
BackupWriteAlways(st, tabs) == StorageSet(st, BACKUP_STORAGE_KEY, tabs)
BackupWrite(st, tabs) ==
    IF Len(tabs) > 0 THEN StorageSet(st, BACKUP_STORAGE_KEY, tabs) ELSE st

performBackup ==
    LET tabs == getSavedTabsForBackground(store)
    IN  /\ store' = BackupWrite(store, tabs)
        /\ last' = Call("performBackup", Undefined, <<Len(tabs)>>, <<>>, 0)
        /\ io' = NoFault
        /\ UNCHANGED expected

\* try { ... } catch (error) { console.error(...) }: a rejection inside
\* performBackup is logged and not thrown again.
Rethrown(fault) ==
    [fault |-> fault, thrown |-> IF fault = "none" THEN "none" ELSE "storage"]
Caught(fault) == [fault |-> fault, thrown |-> "none"]

\* performBackup when its get or its set rejects; the set is only called with
\* tabs to write.
performBackupCaught(fault) ==
    /\ fault = "set" => Len(StorageGet(store, STORAGE_KEY)) > 0
    /\ store' = store
    /\ last' = Call("performBackup", Undefined, <<>>, <<>>, 0)
    /\ io' = Caught(fault)
    /\ UNCHANGED expected

BACKUP_ALARM_NAME == "dailyBackupTabs"
AlarmNames == {BACKUP_ALARM_NAME, "anotherAlarm"}
InstallReasons == {"install", "update", "chrome_update"}

\* periodInMinutes: 60 * 24
BackupPeriodInMinutes == 60 * 24

\* chrome.alarms.clear(name) and chrome.alarms.create(name, {periodInMinutes}):
\* an alarm is a record; create replaces an alarm of the same name.
AlarmsClear(al, name) == {a \in al : a.name # name}
AlarmsCreate(al, name, period) ==
    {a \in al : a.name # name} \cup {[name |-> name, periodInMinutes |-> period]}

\* if (alarm.name === BACKUP_ALARM_NAME)
AlarmRunsBackupAlways(name) == TRUE
AlarmRunsBackup(name) == name = BACKUP_ALARM_NAME

\* if (details.reason === "install")
InstallRunsBackupOnUpdate(reason) == reason \in {"install", "update"}
InstallRunsBackup(reason) == reason = "install"

\* The event a listener handled: which one, its alarm name or install reason,
\* (history) how many performBackup runs it awaited, and what the listener's
\* promise rejected with.
Handled(kind, arg, backups, rejected) ==
    [kind |-> kind, arg |-> arg, backups |-> backups, rejected |-> rejected]

NoEvent == Handled("none", "", 0, "none")

\* await performBackup(), with the storage fault the run meets
RunBackup(fault) ==
    IF fault = "none" THEN performBackup ELSE performBackupCaught(fault)

\* chrome.alarms.onAlarm listener; the backup alarm fires once it is registered
onAlarm(name, fault) ==
    /\ name = BACKUP_ALARM_NAME => \E a \in alarms : a.name = name
    /\ IF AlarmRunsBackup(name)
       THEN /\ RunBackup(fault)
            /\ event' = Handled("onAlarm", name, 1, io'.thrown)
       ELSE /\ fault = "none"
            /\ UNCHANGED <<store, last, expected, io>>
            /\ event' = Handled("onAlarm", name, 0, "none")
    /\ UNCHANGED alarms

\* chrome.runtime.onInstalled listener
onInstalled(reason, fault) ==
    /\ alarms' = AlarmsCreate(AlarmsClear(alarms, BACKUP_ALARM_NAME),
                              BACKUP_ALARM_NAME, BackupPeriodInMinutes)
    /\ IF InstallRunsBackup(reason)
       THEN /\ RunBackup(fault)
            /\ event' = Handled("onInstalled", reason, 1, io'.thrown)
       ELSE /\ fault = "none"
            /\ UNCHANGED <<store, last, expected, io>>
            /\ event' = Handled("onInstalled", reason, 0, "none")

\* ---- the browser's tabs (chrome.tabs) -------------------------------------
\* browser is the tab strip of one normal window, in tab order.  A tab is
\* [id, url, title, active, discarded]; one tab is active, and the active tab
\* is never discarded.
NoUrl == 0                  \* tab.url is undefined
NewTabUrl == MaxUrl + 1     \* a url starting with "chrome://newtab"
EmptyTitle == 0             \* tab.title is undefined or ""
NoTitle == MaxTitle + 1     \* "No Title"

TabUrls == {NoUrl, NewTabUrl} \cup Urls
TabTitles == {EmptyTitle} \cup Titles
TabIds == 1..MaxOpen

OpenTab(url, title) ==
    /\ Len(browser) < MaxOpen
    /\ LET free == TabIds \ IdsOf(browser)
           id == CHOOSE n \in free : \A m \in free : n <= m
       IN  browser' = Append([i \in 1..Len(browser) |->
                                 [browser[i] EXCEPT !.active = FALSE]],
                             [id |-> id, url |-> url, title |-> title,
                              active |-> TRUE, discarded |-> FALSE])

DiscardTab(i) ==
    /\ ~ browser[i].active
    /\ ~ browser[i].discarded
    /\ browser' = [browser EXCEPT ![i].discarded = TRUE]

\* ---- popup.tsx ------------------------------------------------------------
\* popup.loading is the component's only state; type, closed and console are
\* history of the last handleSaveTabs: its argument, the tabs it closed and
\* the console method of its last log line.
PopupIdle == [loading |-> "null", type |-> "none", closed |-> <<>>, console |-> "none"]

SaveTypes == {"all", "current", "inactive"}

\* chrome.tabs.query(buildTabsQuery(type))
tabsQuery(type) ==
    LET isActive(tab) == tab.active
        notActive(tab) == ~ tab.active
    IN  CASE type = "current" -> SelectSeq(browser, isActive)
          [] type = "inactive" -> SelectSeq(browser, notActive)
          [] OTHER -> browser

\* tabs.filter((tab) => tab.discarded) for type "inactive"
tabsOfType(type) ==
    LET isDiscarded(tab) == tab.discarded
    IN  IF type = "inactive" THEN SelectSeq(tabsQuery(type), isDiscarded)
        ELSE tabsQuery(type)

\* tab.url && !tab.url.startsWith("chrome://newtab")
filteredTabs(tabs) ==
    LET worthSaving(tab) == tab.url # NoUrl /\ tab.url # NewTabUrl
    IN  SelectSeq(tabs, worthSaving)

\* tab.title || "No Title"
TitleOrDefault(title) == IF title = EmptyTitle THEN NoTitle ELSE title

tabsData(tabs) ==
    [i \in 1..Len(tabs) |->
        [url |-> tabs[i].url, title |-> TitleOrDefault(tabs[i].title)]]

\* chrome.tabs.remove(tabsToCloseIds) comes after `await saveTabs(tabsData)`:
\* when that await throws, control is in the catch block.
TabsToCloseAnyway(tabs, thrown) == tabs
TabsToClose(tabs, thrown) == IF thrown = "none" THEN tabs ELSE <<>>

TabsRemove(ids) ==
    LET stays(tab) == tab.id \notin ids
    IN  SelectSeq(browser, stays)

\* handleSaveTabs(type) with every storage call succeeding
handleSaveTabs(type, now, suffix) ==
    LET toSave == filteredTabs(tabsOfType(type))
        toClose == TabsToClose(toSave, "none")
    IN  IF Len(toSave) > 0
        THEN /\ Len(suffix) = Len(toSave)
             /\ saveTabs(tabsData(toSave), now, suffix)
             /\ browser' = TabsRemove(IdsOf(toClose))
             /\ popup' = [loading |-> "null", type |-> type,
                          closed |-> toClose, console |-> "log"]
        ELSE /\ popup' = [loading |-> "null", type |-> type,
                          closed |-> <<>>, console |-> "log"]
             /\ io' = NoFault
             /\ UNCHANGED <<store, last, expected, browser>>

\* handleSaveTabs(type) with a storage call of saveTabs failing
handleSaveTabsRejected(type, fault) ==
    LET toSave == filteredTabs(tabsOfType(type))
        toClose == TabsToClose(toSave, Propagated(fault).thrown)
    IN  /\ Len(toSave) > 0
        /\ saveTabsRejected(tabsData(toSave), fault)
        /\ browser' = TabsRemove(IdsOf(toClose))
        /\ popup' = [loading |-> "null", type |-> type,
                     closed |-> toClose, console |-> "error"]

\* ---- options.tsx ----------------------------------------------------------
\* options holds the six useState values of OptionsPage and, as history, the
\* handler that ran last (handled), the id it was given (tabId) and whether
\* a storage call failed in the user's last action or its recovery (failed).
\* error is "null", "load" (加载标签页失败) or "delete" (删除失败).
ITEMS_PER_PAGE == 20

\* A search term is known by what contains it: nothing, one url, one title.
\* "blank" is a term of spaces only, which trim() empties.
SearchTerm(kind, value) == [kind |-> kind, value |-> value]
EmptyTerm == SearchTerm("empty", 0)
SearchTerms ==
    {EmptyTerm, SearchTerm("blank", 0), SearchTerm("nothing", 0)}
        \cup {SearchTerm("url", url) : url \in Urls}
        \cup {SearchTerm("title", title) : title \in Titles}

\* searchTerm.toLowerCase().trim() is the empty string
TrimsToEmpty(term) == term.kind \in {"empty", "blank"}

\* tab.title...includes(term) || tab.url...includes(term)
Matches(tab, term) ==
    \/ term.kind = "title" /\ tab.title = term.value
    \/ term.kind = "url" /\ tab.url = term.value

\* the effect on [searchTerm, allTabs]: what it sets filteredTabs and
\* currentPage to
SearchEffect(allTabs, term, currentPage) ==
    LET matching(tab) == Matches(tab, term)
    IN  IF TrimsToEmpty(term)
        THEN [filteredTabs |-> allTabs, currentPage |-> currentPage]
        ELSE [filteredTabs |-> SelectSeq(allTabs, matching), currentPage |-> 1]

paginatedTabs(o) ==
    LET startIndex == (o.currentPage - 1) * ITEMS_PER_PAGE
        endIndex == startIndex + ITEMS_PER_PAGE
    IN  SubSeq(o.filteredTabs, startIndex + 1,
               IF endIndex < Len(o.filteredTabs) THEN endIndex ELSE Len(o.filteredTabs))

\* Math.ceil(filteredTabs.length / ITEMS_PER_PAGE)
pageCount(o) == (Len(o.filteredTabs) + ITEMS_PER_PAGE - 1) \div ITEMS_PER_PAGE

\* the list and its delete buttons are rendered
ListShown(o) == ~ o.loading /\ o.error = "null" /\ Len(o.filteredTabs) > 0

OptionsInitial ==
    [allTabs |-> <<>>, filteredTabs |-> <<>>, searchTerm |-> EmptyTerm,
     currentPage |-> 1, loading |-> TRUE, error |-> "null",
     handled |-> "none", tabId |-> <<>>, failed |-> FALSE]

\* allTabs was set to tabs: the effect runs
WithAllTabs(o, tabs) ==
    LET effect == SearchEffect(tabs, o.searchTerm, o.currentPage)
    IN  [o EXCEPT !.allTabs = tabs,
                  !.filteredTabs = effect.filteredTabs,
                  !.currentPage = effect.currentPage]

\* fetchTabs from its await on: getSavedTabs() resolved
fetchTabs ==
    /\ options.loading
    /\ options' = [WithAllTabs(options, getSavedTabs(store))
                      EXCEPT !.loading = FALSE, !.handled = "fetchTabs"]
    /\ io' = NoFault
    /\ UNCHANGED <<store, last, expected>>

\* fetchTabs from its await on: getSavedTabs() rejected
fetchTabsRejected ==
    /\ options.loading
    /\ options' = [WithAllTabs(options, <<>>)
                      EXCEPT !.loading = FALSE, !.error = "load",
                             !.handled = "fetchTabs", !.failed = TRUE]
    /\ io' = Propagated("get")
    /\ UNCHANGED <<store, last, expected>>

\* the catch block of handleDelete calls fetchTabs(), which runs up to its
\* await at once: setError("删除失败...") is followed by setLoading(true) and
\* setError(null)
ReloadNever(thrown) == FALSE
ReloadStarted(thrown) == thrown # "none"

ErrorAfterDelete(thrown) ==
    IF thrown = "none" THEN "null"
    ELSE IF ReloadStarted(thrown) THEN "null" ELSE "delete"

CanDelete(tabId) ==
    /\ ListShown(options)
    /\ tabId \in IdsOf(paginatedTabs(options))
    /\ Len(StorageGet(store, STORAGE_KEY)) > MaxListed - MaxDeleted

AfterDelete(tabId, thrown) ==
    [WithAllTabs(options, WithoutId(options.allTabs, tabId))
        EXCEPT !.loading = ReloadStarted(thrown),
               !.error = ErrorAfterDelete(thrown),
               !.handled = "handleDelete",
               !.tabId = tabId,
               !.failed = (thrown # "none")]

\* handleDelete(tabId) with deleteTab succeeding
handleDelete(tabId) ==
    /\ CanDelete(tabId)
    /\ deleteTab(tabId)
    /\ options' = AfterDelete(tabId, "none")

\* handleDelete(tabId) with a storage call of deleteTab failing
handleDeleteRejected(tabId, fault) ==
    /\ CanDelete(tabId)
    /\ deleteTabRejected(tabId, fault)
    /\ options' = AfterDelete(tabId, Propagated(fault).thrown)

\* the Pagination control is rendered when pageCount > 1
handlePageChange(value) ==
    /\ ListShown(options)
    /\ pageCount(options) > 1
    /\ value \in 1..pageCount(options)
    /\ options' = [options EXCEPT !.currentPage = value,
                                   !.handled = "handlePageChange",
                                   !.failed = FALSE]
    /\ UNCHANGED <<store, last, expected, io>>

\* onChange of the search box: setSearchTerm, then the effect
setSearchTerm(term) ==
    LET effect == SearchEffect(options.allTabs, term, options.currentPage)
    IN  /\ term # options.searchTerm
        /\ options' = [options EXCEPT !.searchTerm = term,
                                       !.filteredTabs = effect.filteredTabs,
                                       !.currentPage = effect.currentPage,
                                       !.handled = "setSearchTerm",
                                       !.failed = (options.loading /\ options.failed)]
        /\ UNCHANGED <<store, last, expected, io>>

\* the popup saved MaxListed open tabs in one call before the page was opened
ManyTabs == [i \in 1..MaxListed |-> [url |-> (i % MaxUrl) + 1, title |-> 1]]

saveManyTabs ==
    LET existingTabs == getSavedTabs(store)
        newTabs == NewTabs(ManyTabs, 1, [i \in 1..MaxListed |-> 1])
        uniqueNewTabs == UniqueNewTabs(newTabs, existingTabs)
    IN  /\ options = OptionsInitial
        /\ store = <<>>
        /\ store' = StorageSet(store, STORAGE_KEY,
                               UpdatedTabs(uniqueNewTabs, existingTabs))
        /\ io' = NoFault
        /\ UNCHANGED <<last, expected, options>>

\* ---- calls of storage.ts and performBackup that overlap ------------------
\* Every await is a point where another task may run: a call is its read
\* step, up to `await chrome.storage.local.get`, and its write step, from
\* there to the end.  race holds, for one saveTabs, one deleteTab and one
\* performBackup, where the call is and what it read, and (history) the order
\* in which the steps were taken.
NoCalls ==
    [save |-> [pc |-> "idle", existingTabs |-> <<>>, tabsToSave |-> <<>>, added |-> <<>>],
     del |-> [pc |-> "idle", existingTabs |-> <<>>, tabId |-> <<>>],
     backup |-> [pc |-> "idle", tabs |-> <<>>],
     order |-> <<>>]

Step(name) == Append(race.order, name)

\* const existingTabs = await getSavedTabs()
saveTabsRead(tabsToSave) ==
    /\ race.save.pc = "idle"
    /\ race' = [race EXCEPT !.save = [pc |-> "read",
                                       existingTabs |-> getSavedTabs(store),
                                       tabsToSave |-> tabsToSave,
                                       added |-> <<>>],
                             !.order = Step("saveTabsRead")]
    /\ UNCHANGED store

\* from `const now = Date.now()` to the end of saveTabs
saveTabsWrite(now, suffix) ==
    LET existingTabs == race.save.existingTabs
        newTabs == NewTabs(race.save.tabsToSave, now, suffix)
        uniqueNewTabs == UniqueNewTabs(newTabs, existingTabs)
        updatedTabs == UpdatedTabs(uniqueNewTabs, existingTabs)
    IN  /\ race.save.pc = "read"
        /\ Len(updatedTabs) <= MaxStored
        /\ store' = StorageSet(store, STORAGE_KEY, updatedTabs)
        /\ race' = [race EXCEPT !.save.pc = "done",
                                 !.save.added = uniqueNewTabs,
                                 !.order = Step("saveTabsWrite")]

\* const existingTabs = await getSavedTabs()
deleteTabRead(tabId) ==
    /\ race.del.pc = "idle"
    /\ race' = [race EXCEPT !.del = [pc |-> "read",
                                      existingTabs |-> getSavedTabs(store),
                                      tabId |-> tabId],
                             !.order = Step("deleteTabRead")]
    /\ UNCHANGED store

\* from the filter to the end of deleteTab
deleteTabWrite ==
    /\ race.del.pc = "read"
    /\ store' = StorageSet(store, STORAGE_KEY,
                           WithoutId(race.del.existingTabs, race.del.tabId))
    /\ race' = [race EXCEPT !.del.pc = "done", !.order = Step("deleteTabWrite")]

\* clearAllTabs is one storage call
clearAllTabsRemove ==
    /\ "clearAllTabs" \notin Range(race.order)
    /\ store' = StorageRemove(store, STORAGE_KEY)
    /\ race' = [race EXCEPT !.order = Step("clearAllTabs")]

\* const tabs = await getSavedTabsForBackground()
performBackupRead ==
    /\ race.backup.pc = "idle"
    /\ race' = [race EXCEPT !.backup = [pc |-> "read",
                                         tabs |-> getSavedTabsForBackground(store)],
                             !.order = Step("performBackupRead")]
    /\ UNCHANGED store

\* from `if (tabs.length > 0)` to the end of performBackup
performBackupWrite ==
    /\ race.backup.pc = "read"
    /\ store' = BackupWrite(store, race.backup.tabs)
    /\ race' = [race EXCEPT !.backup.pc = "done",
                             !.order = Step("performBackupWrite")]

\* ---- the rest of the initial state ---------------------------------------
Init ==
    /\ InitStorage
    /\ browser = <<>>
    /\ popup = PopupIdle
    /\ options = OptionsInitial
    /\ race = NoCalls
    /\ alarms = {}
    /\ event = NoEvent

\* ---- the calls of storage.ts, one completing before the next starts ----
\* Date.now() is wall-clock time in milliseconds: two calls may read the same
\* value, and a later call a smaller one after the clock was set back.
\* Math.random() may yield any suffix, also one it yielded before.
Next ==
    \/ \E tabsToSave \in Batches, now \in Times :
           \E suffix \in [1..Len(tabsToSave) -> Rands] :
               saveTabs(tabsToSave, now, suffix) /\ UNCHANGED <<pages, race, background>>
    \/ \E tabId \in AllIds : deleteTab(tabId) /\ UNCHANGED <<pages, race, background>>
    \/ clearAllTabs /\ UNCHANGED <<pages, race, background>>

Spec == Init /\ [][Next]_vars

\* ---- the calls of storage.ts over a store whose calls may reject --------
NextFail ==
    \/ Next
    \/ \E tabsToSave \in Batches, fault \in Faults :
           saveTabsRejected(tabsToSave, fault) /\ UNCHANGED <<pages, race, background>>
    \/ \E tabId \in AllIds, fault \in Faults :
           deleteTabRejected(tabId, fault) /\ UNCHANGED <<pages, race, background>>

SpecFail == Init /\ [][NextFail]_vars

\* ---- the backup job next to the calls of storage.ts ---------------------
\* performBackup copies the records whatever their ids are: here every
\* Math.random() suffix is the same one.
NextBackup ==
    \/ \E tabsToSave \in Batches, now \in Times :
           saveTabs(tabsToSave, now, [i \in 1..Len(tabsToSave) |-> 1])
               /\ UNCHANGED <<pages, race, background>>
    \/ \E tabId \in AllIds : deleteTab(tabId) /\ UNCHANGED <<pages, race, background>>
    \/ clearAllTabs /\ UNCHANGED <<pages, race, background>>
    \/ performBackup /\ UNCHANGED <<pages, race, background>>

SpecBackup == Init /\ [][NextBackup]_vars

\* ---- the popup and the browser --------------------------------------------
\* Tabs are opened and discarded and the popup's buttons are pressed.  One
\* clock reading and one random suffix.
TabOpens ==
    /\ \E url \in TabUrls, title \in TabTitles : OpenTab(url, title)
    /\ popup' = PopupIdle
    /\ UNCHANGED <<store, last, expected, io, options, race, background>>

TabDiscarded ==
    /\ \E i \in DOMAIN browser : DiscardTab(i)
    /\ popup' = PopupIdle
    /\ UNCHANGED <<store, last, expected, io, options, race, background>>

PopupSaves ==
    /\ \E type \in SaveTypes :
           handleSaveTabs(type, 1, [i \in 1..Len(filteredTabs(tabsOfType(type))) |-> 1])
    /\ UNCHANGED <<options, race, background>>

PopupSaveFails ==
    /\ \E type \in SaveTypes, fault \in Faults : handleSaveTabsRejected(type, fault)
    /\ UNCHANGED <<options, race, background>>

NextPopup == TabOpens \/ TabDiscarded \/ PopupSaves \/ PopupSaveFails

SpecPopup == Init /\ [][NextPopup]_vars

\* ---- the options page -------------------------------------------------------
\* what the options page leaves alone
beside == <<browser, popup, race, background>>

ManySaved == saveManyTabs /\ UNCHANGED beside

OptionsLoads == fetchTabs /\ UNCHANGED beside

OptionsLoadFails == fetchTabsRejected /\ UNCHANGED beside

OptionsDeletes ==
    /\ \E tabId \in IdsOf(options.allTabs) : handleDelete(tabId)
    /\ UNCHANGED beside

OptionsDeleteFails ==
    /\ \E tabId \in IdsOf(options.allTabs), fault \in Faults :
           handleDeleteRejected(tabId, fault)
    /\ UNCHANGED beside

OptionsTurnsPage ==
    /\ \E value \in 1..MaxListed : handlePageChange(value)
    /\ UNCHANGED beside

OptionsSearches ==
    /\ \E term \in SearchTerms : setSearchTerm(term)
    /\ UNCHANGED beside

NextOptions ==
    \/ ManySaved
    \/ OptionsLoads
    \/ OptionsLoadFails
    \/ OptionsDeletes
    \/ OptionsDeleteFails
    \/ OptionsTurnsPage
    \/ OptionsSearches

SpecOptions == Init /\ [][NextOptions]_vars

\* ---- overlapping calls ---------------------------------------------------
\* Saves that complete one after the other fill the store; then one saveTabs,
\* one deleteTab of a stored record, one clearAllTabs and one performBackup
\* run with their steps in any order.  One clock reading and one random
\* suffix: what is lost here does not depend on them.
Alone ==
    /\ race = NoCalls
    /\ \E tabsToSave \in Batches :
           saveTabs(tabsToSave, 1, [i \in 1..Len(tabsToSave) |-> 1])
    /\ UNCHANGED <<pages, race, background>>

\* what a step of an overlapping call leaves alone
apart == <<last, expected, io, pages, background>>

SaveReads ==
    /\ \E tabsToSave \in Batches : saveTabsRead(tabsToSave)
    /\ UNCHANGED apart

SaveWrites ==
    /\ saveTabsWrite(1, [i \in 1..Len(race.save.tabsToSave) |-> 1])
    /\ UNCHANGED apart

DeleteReads ==
    /\ \E tabId \in IdsOf(getSavedTabs(store)) : deleteTabRead(tabId)
    /\ UNCHANGED apart

DeleteWrites == deleteTabWrite /\ UNCHANGED apart

Clears == clearAllTabsRemove /\ UNCHANGED apart

BackupReads == performBackupRead /\ UNCHANGED apart

BackupWrites == performBackupWrite /\ UNCHANGED apart

NextRace ==
    \/ Alone
    \/ SaveReads
    \/ SaveWrites
    \/ DeleteReads
    \/ DeleteWrites
    \/ Clears
    \/ BackupReads
    \/ BackupWrites

SpecRace == Init /\ [][NextRace]_vars

\* ---- the background script next to the calls of storage.ts --------------
\* The listeners run when their events arrive, between the calls the pages
\* make.  What the listeners do does not depend on the ids and the order of
\* the records: here every Date.now() reading and every Math.random() suffix
\* is the same one.
PageSaves ==
    \E tabsToSave \in Batches :
        /\ saveTabs(tabsToSave, 1, [i \in 1..Len(tabsToSave) |-> 1])
        /\ event' = NoEvent
        /\ UNCHANGED <<pages, race, alarms>>

PageDeletes ==
    \E tabId \in AllIds :
        /\ deleteTab(tabId)
        /\ event' = NoEvent
        /\ UNCHANGED <<pages, race, alarms>>

PageClears ==
    /\ clearAllTabs
    /\ event' = NoEvent
    /\ UNCHANGED <<pages, race, alarms>>

AlarmFires ==
    \E name \in AlarmNames, fault \in {"none"} \cup Faults :
        onAlarm(name, fault) /\ UNCHANGED <<pages, race>>

Installed ==
    \E reason \in InstallReasons, fault \in {"none"} \cup Faults :
        onInstalled(reason, fault) /\ UNCHANGED <<pages, race>>

NextBackground == PageSaves \/ PageDeletes \/ PageClears \/ AlarmFires \/ Installed

SpecBackground == Init /\ [][NextBackground]_vars

\* ---- what the callers of storage.ts observe -----------------------------
Live(st) == StorageGet(st, STORAGE_KEY)

IsSortedDesc(tabs) ==
    \A i \in 1..(Len(tabs) - 1) : tabs[i].savedAt >= tabs[i + 1].savedAt

\* C1: after any sequence of completed saveTabs and deleteTab calls,
\* getSavedTabs returns exactly the records that a save added and no delete
\* (by their id) or clear removed since, each with the id and savedAt it was
\* created with.
C1_ExactlyTheLiveRecords ==
    LET tabs == getSavedTabs(store)
    IN  /\ Range(tabs) = expected
        /\ Len(tabs) = Cardinality(expected)

C1_Witness ==
    /\ last.op = "deleteTab"
    /\ last.hits >= 1
    /\ expected # {}
    /\ Range(getSavedTabs(store)) = expected

\* C2: what getSavedTabs returns is sorted by savedAt, newest first, and it is
\* the empty sequence while the live key is absent from the store.
C2_SortedNewestFirst ==
    /\ IsSortedDesc(getSavedTabs(store))
    /\ STORAGE_KEY \notin DOMAIN store => getSavedTabs(store) = <<>>

C2_Witness ==
    /\ ~ IsSortedDesc(Live(store))
    /\ IsSortedDesc(getSavedTabs(store))
    /\ Len(getSavedTabs(store)) >= 2

\* C3: a saveTabs call with one candidate whose url a stored record already
\* has leaves the collection as it was (same records, same getSavedTabs
\* result); with one candidate whose url no stored record has, the collection
\* grows by exactly one record.
C3_SingleCandidate ==
    [][(last'.op = "saveTabs" /\ Len(last'.urls) = 1) =>
          IF last'.urls[1] \in UrlsOf(Live(store))
          THEN /\ getSavedTabs(store') = getSavedTabs(store)
               /\ Range(Live(store')) = Range(Live(store))
               /\ Len(Live(store')) = Len(Live(store))
          ELSE /\ Len(Live(store')) = Len(Live(store)) + 1
               /\ Range(Live(store)) \subseteq Range(Live(store'))]_vars

C3_Witness ==
    /\ last.op = "saveTabs"
    /\ Len(last.urls) = 1
    /\ last.hits = 1
    /\ last.urls[1] \in UrlsOf(Live(store))
    /\ Cardinality({i \in 1..Len(Live(store)) : Live(store)[i].url = last.urls[1]}) = 1

\* C4: a saveTabs call with two candidates of the same url, a url no stored
\* record has, stores both of them as two records.
C4_NoDedupWithinBatch ==
    [][(/\ last'.op = "saveTabs"
        /\ Len(last'.urls) = 2
        /\ last'.urls[1] = last'.urls[2]
        /\ last'.urls[1] \notin UrlsOf(Live(store))) =>
          /\ Len(Live(store')) = Len(Live(store)) + 2
          /\ Cardinality({i \in 1..Len(Live(store')) :
                 Live(store')[i].url = last'.urls[1]}) = 2]_vars

C4_Witness ==
    /\ last.op = "saveTabs"
    /\ Len(last.urls) = 2
    /\ last.urls[1] = last.urls[2]
    /\ last.hits = 0
    /\ Cardinality({i \in 1..Len(Live(store)) : Live(store)[i].url = last.urls[1]}) = 2

\* C5 (as stated): saveTabs hands back to its caller the number of records it
\* added to the store.
C5_ReturnsAddedCount ==
    [][last'.op = "saveTabs" =>
          last'.ret = <<Len(Live(store')) - Len(Live(store))>>]_vars

\* C5 (amended): saveTabs resolves with no value; the number of records it
\* added after dedup (0 when every candidate's url is already stored) is what
\* its console.log line carries.
C5_LogsAddedCount ==
    [][last'.op = "saveTabs" =>
          /\ last'.ret = Undefined
          /\ last'.logged = <<Len(Live(store')) - Len(Live(store))>>]_vars

C5_Witness ==
    /\ last.op = "saveTabs"
    /\ Len(last.urls) = 2
    /\ last.hits = 1
    /\ last.logged = <<1>>
    /\ last.ret = Undefined

\* C6: a deleteTab call whose id no stored record has resolves normally and
\* leaves the collection with exactly the records it had.
C6_DeleteUnknownId ==
    [][(last'.op = "deleteTab" /\ last'.logged \notin IdsOf(Live(store))) =>
          /\ last'.ret = Undefined
          /\ getSavedTabs(store') = getSavedTabs(store)
          /\ Range(Live(store')) = Range(Live(store))
          /\ Len(Live(store')) = Len(Live(store))]_vars

C6_Witness ==
    /\ last.op = "deleteTab"
    /\ last.hits = 0
    /\ last.logged \notin IdsOf(Live(store))
    /\ Len(Live(store)) >= 2

\* C7: no two records of the live collection have the same id, and every
\* record of the collection after a step is either a record of the collection
\* before it, id and savedAt included, or one the step's saveTabs created.
UniqueIds ==
    \A i, j \in 1..Len(Live(store)) :
        i # j => Live(store)[i].id # Live(store)[j].id

IdAndSavedAtKept ==
    \A r \in Range(Live(store')) :
        \/ r \in Range(Live(store))
        \/ /\ last'.op = "saveTabs"
           /\ r.url \in Range(last'.urls)
           /\ r.url \notin UrlsOf(Live(store))

C7_UniqueImmutableIds == []UniqueIds /\ [][IdAndSavedAtKept]_vars

\* C8: the records one saveTabs call adds to the store all have the same
\* savedAt and pairwise different ids.
CreatedBy(before, after) ==
    {i \in 1..Len(after) : after[i] \notin Range(before)}

C8_BatchSharesSavedAt ==
    [][last'.op = "saveTabs" =>
          LET created == CreatedBy(Live(store), Live(store'))
          IN  /\ Cardinality(created) = last'.logged[1]
              /\ \A i, j \in created :
                    /\ Live(store')[i].savedAt = Live(store')[j].savedAt
                    /\ i # j => Live(store')[i].id # Live(store')[j].id]_vars

C8_Witness ==
    /\ last.op = "saveTabs"
    /\ last.logged = <<2>>
    /\ Len(Live(store)) = 3

\* C9: the value a saveTabs call writes under the live key is the surviving
\* new records in the order of the batch, followed by the records that were
\* stored, in the order getSavedTabs returned them.
C9_NewBeforeOld ==
    [][last'.op = "saveTabs" =>
          LET written == Live(store')
              old == getSavedTabs(store)
              k == Len(written) - Len(old)
              surviving == SelectSeq(last'.urls, LAMBDA u : u \notin UrlsOf(old))
          IN  /\ k = Len(surviving)
              /\ SubSeq(written, k + 1, Len(written)) = old
              /\ \A i \in 1..k :
                    /\ written[i].url = surviving[i]
                    /\ written[i] \notin Range(old)
              /\ \A i, j \in 1..k : i < j => written[i].id[2] < written[j].id[2]]_vars

C9_Witness ==
    /\ last.op = "saveTabs"
    /\ last.logged = <<2>>
    /\ Len(Live(store)) = 3
    /\ Live(store)[1].id[2] < Live(store)[2].id[2]
    /\ Live(store)[3].url # Live(store)[1].url

\* C10: a performBackup run that finds records under the live key leaves under
\* the backup key a copy of them, every record as it is stored and in the
\* order every reader of the live key gets them; a run that finds the live
\* key empty or absent leaves the backup key as it was, a previous snapshot
\* included.
HasKey(st, key) == key \in DOMAIN st

C10_BackupCopiesOrKeeps ==
    [][last'.op = "performBackup" =>
          IF Len(Live(store)) > 0
          THEN /\ HasKey(store', BACKUP_STORAGE_KEY)
               /\ store'[BACKUP_STORAGE_KEY] = getSavedTabs(store)
               /\ Range(store'[BACKUP_STORAGE_KEY]) = Range(Live(store))
               /\ Len(store'[BACKUP_STORAGE_KEY]) = Len(Live(store))
          ELSE /\ HasKey(store', BACKUP_STORAGE_KEY) = HasKey(store, BACKUP_STORAGE_KEY)
               /\ HasKey(store, BACKUP_STORAGE_KEY) =>
                      store'[BACKUP_STORAGE_KEY] = store[BACKUP_STORAGE_KEY]]_vars

C10_Witness ==
    /\ last.op = "performBackup"
    /\ last.logged = <<0>>
    /\ Live(store) = <<>>
    /\ HasKey(store, BACKUP_STORAGE_KEY)
    /\ Len(store[BACKUP_STORAGE_KEY]) = 3

\* C11: a saveTabs or deleteTab call in which a storage read or write fails
\* rejects towards its caller and leaves the store exactly as it was; a call
\* without a failure resolves, and a saveTabs then has stored every candidate
\* whose url was not stored before, never a part of them.
C11_AllOrNothing ==
    [][last'.op \in {"saveTabs", "deleteTab"} =>
          /\ (io'.fault # "none") = (io'.thrown = "storage")
          /\ io'.fault # "none" => store' = store
          /\ (io'.fault = "none" /\ last'.op = "saveTabs") =>
                /\ Len(Live(store')) = Len(Live(store)) +
                       Cardinality({i \in 1..Len(last'.urls) :
                           last'.urls[i] \notin UrlsOf(Live(store))})
                /\ Range(last'.urls) \subseteq UrlsOf(Live(store'))]_vars

C11_Witness ==
    /\ last.op = "saveTabs"
    /\ io.fault = "set"
    /\ io.thrown = "storage"
    /\ Len(last.urls) = 2
    /\ last.hits = 0
    /\ Len(Live(store)) = 1

\* C15: after clearAllTabs, whatever was saved and deleted before it,
\* getSavedTabs returns the empty sequence.
C15_ClearThenEmpty ==
    [][last'.op = "clearAllTabs" =>
          /\ STORAGE_KEY \notin DOMAIN store'
          /\ getSavedTabs(store') = <<>>]_vars

C15_Witness ==
    /\ last.op = "clearAllTabs"
    /\ last.hits >= 2
    /\ getSavedTabs(store) = <<>>

\* C13: a storage failure inside performBackup, on its read or on its write,
\* is caught: nothing is thrown out of performBackup or out of the listener
\* that awaited it, neither key changes, and afterwards the pages' saves and
\* deletes and the next alarm are still enabled.
BackupFailed == event.backups = 1 /\ io.fault # "none"

C13_BackupFailureCaught ==
    /\ [][BackupFailed' =>
             /\ last'.op = "performBackup"
             /\ io'.thrown = "none"
             /\ event'.rejected = "none"
             /\ store' = store]_vars
    /\ [](BackupFailed =>
             /\ ENABLED PageSaves
             /\ ENABLED PageDeletes
             /\ ENABLED AlarmFires)

C13_Witness ==
    /\ event.kind = "onAlarm"
    /\ BackupFailed
    /\ io.fault = "set"
    /\ io.thrown = "none"
    /\ HasKey(store, BACKUP_STORAGE_KEY)
    /\ Len(store[BACKUP_STORAGE_KEY]) < Len(Live(store))

\* C18: performBackup runs in a step exactly when the step handles an alarm
\* named BACKUP_ALARM_NAME or an onInstalled event with reason "install"; an
\* alarm of another name, an onInstalled event with another reason and a call
\* of a page run no backup; after every onInstalled event exactly one alarm
\* named BACKUP_ALARM_NAME is registered, with a period of 24 hours.
C18_BackupTriggers ==
    [][/\ event'.kind = "onAlarm" =>
            (event'.backups = 1) = (event'.arg = BACKUP_ALARM_NAME)
       /\ event'.kind = "onInstalled" =>
            /\ (event'.backups = 1) = (event'.arg = "install")
            /\ Cardinality({a \in alarms' : a.name = BACKUP_ALARM_NAME}) = 1
            /\ \A a \in alarms' :
                  a.name = BACKUP_ALARM_NAME => a.periodInMinutes = 24 * 60
       /\ event'.backups = 1 => last'.op = "performBackup"
       /\ event'.backups = 0 =>
            \/ last'.op # "performBackup"
            \/ <<store', last'>> = <<store, last>>]_vars

C18_Witness ==
    /\ event.kind = "onInstalled"
    /\ event.arg = "update"
    /\ event.backups = 0
    /\ Cardinality({a \in alarms : a.name = BACKUP_ALARM_NAME}) = 1
    /\ Len(Live(store)) > 0
    /\ ~ HasKey(store, BACKUP_STORAGE_KEY)

\* ---- overlapping calls ---------------------------------------------------
\* step a was taken before step b
Before(a, b) ==
    \E i, j \in DOMAIN race.order :
        i < j /\ race.order[i] = a /\ race.order[j] = b

LastStep == IF race.order = <<>> THEN "none" ELSE race.order[Len(race.order)]

SameUnder(key) ==
    /\ HasKey(store', key) = HasKey(store, key)
    /\ HasKey(store, key) => store'[key] = store[key]

\* one saveTabs and one deleteTab, each having read before the other wrote,
\* both completed, and no clearAllTabs next to them
Overlapped ==
    /\ race.save.pc = "done"
    /\ race.del.pc = "done"
    /\ Before("saveTabsRead", "deleteTabWrite")
    /\ Before("deleteTabRead", "saveTabsWrite")
    /\ "clearAllTabs" \notin Range(race.order)

\* C16: when one saveTabs that adds a record and one deleteTab of a stored
\* record have both read the collection before either has written it, then
\* after both have completed without error one of the two changes is lost:
\* the store holds none of the records the save added, or it still holds the
\* record the delete removed.
C16_LostUpdate ==
    (Overlapped /\ race.save.added # <<>>) =>
        \/ Range(race.save.added) \cap Range(Live(store)) = {}
        \/ race.del.tabId \in IdsOf(Live(store))

C16_Witness ==
    /\ Overlapped
    /\ race.save.added # <<>>
    /\ LastStep = "deleteTabWrite"
    /\ Range(race.save.added) \cap Range(Live(store)) = {}
    /\ race.del.tabId \notin IdsOf(Live(store))
    /\ Len(Live(store)) > 0

\* C20: in every interleaving of the steps of saveTabs, deleteTab,
\* clearAllTabs and performBackup, a step of saveTabs, deleteTab or
\* clearAllTabs leaves the value under BACKUP_STORAGE_KEY as it was, present
\* or absent, and a step of performBackup leaves the value under STORAGE_KEY
\* as it was.
C20_KeysApart ==
    [][IF race'.order # race.order
          /\ LastStep' \in {"performBackupRead", "performBackupWrite"}
       THEN SameUnder(STORAGE_KEY)
       ELSE SameUnder(BACKUP_STORAGE_KEY)]_vars

C20_Witness ==
    /\ race.save.pc = "done"
    /\ race.del.pc = "done"
    /\ race.backup.pc = "done"
    /\ LastStep = "saveTabsWrite"
    /\ Before("performBackupRead", "deleteTabWrite")
    /\ Before("deleteTabWrite", "performBackupWrite")
    /\ HasKey(store, BACKUP_STORAGE_KEY)
    /\ HasKey(store, STORAGE_KEY)
    /\ store[BACKUP_STORAGE_KEY] # store[STORAGE_KEY]

\* ---- the popup -------------------------------------------------------------
\* C14: a handleSaveTabs whose saveTabs fails closes no tab and leaves the
\* store as it was; a handleSaveTabs that closes tabs has completed its
\* saveTabs without a fault, the tabs it closed are the ones gone from the
\* browser, and the url of every closed tab is in the stored collection.
C14_CloseAfterSave ==
    [][popup'.type # "none" =>
          /\ io'.fault # "none" =>
                /\ popup'.closed = <<>>
                /\ browser' = browser
                /\ store' = store
          /\ popup'.closed # <<>> =>
                /\ io'.fault = "none"
                /\ last'.op = "saveTabs"
                /\ \A tab \in Range(popup'.closed) :
                      /\ tab \in Range(browser)
                      /\ tab.url \in UrlsOf(Live(store'))
          /\ Range(browser') = Range(browser) \ Range(popup'.closed)]_vars

C14_Witness ==
    /\ popup.type = "all"
    /\ Len(popup.closed) = 2
    /\ popup.closed[1].url # popup.closed[2].url
    /\ io.fault = "none"
    /\ Len(browser) = 0
    /\ \A tab \in Range(popup.closed) : tab.url \in UrlsOf(Live(store))

\* ---- the options page -------------------------------------------------------
\* C12 (as stated): when a storage call has failed during the user's last
\* action on the options page, a load or a delete with its recovery reload,
\* then once the handling has ended (nothing is loading) the page holds a
\* non-null error.
C12_FailureShown ==
    (options.failed /\ ~ options.loading) => options.error # "null"

\* C17: a handleDelete whose deleteTab fails leaves the store as it was,
\* removes the record from allTabs and starts a reload; when that reload is
\* the next step and succeeds, allTabs is the persisted collection and holds
\* the record again.
C17_ReloadAfterFailedDelete ==
    [][/\ (options'.handled = "handleDelete" /\ io'.fault # "none") =>
             /\ store' = store
             /\ options'.tabId \notin IdsOf(options'.allTabs)
             /\ options'.tabId \in IdsOf(options.allTabs)
             /\ options'.loading
       /\ (/\ options.handled = "handleDelete"
           /\ options.failed
           /\ options.loading
           /\ options'.handled = "fetchTabs"
           /\ io'.fault = "none") =>
             /\ options'.allTabs = getSavedTabs(store')
             /\ options'.tabId \in IdsOf(options'.allTabs)
             /\ ~ options'.loading]_vars

C17_Witness ==
    /\ options.handled = "fetchTabs"
    /\ options.failed
    /\ io.fault = "none"
    /\ ~ options.loading
    /\ options.tabId \in IdsOf(options.allTabs)
    /\ Len(options.allTabs) = MaxListed
    /\ options.allTabs = getSavedTabs(store)

\* C19 (as stated): whenever the filtered list is non-empty the displayed
\* page is non-empty: currentPage is at most ceil(|filteredTabs| / 20).
C19_PageWithinCount ==
    Len(options.filteredTabs) > 0 =>
        /\ options.currentPage <= pageCount(options)
        /\ Len(paginatedTabs(options)) > 0

====
